---- MODULE Spec2Model ----
(***************************************************************************)
(* Model of couchpotato/core/media/show/providers/info/thetvdb.py: the     *)
(* TheTVDb show-metadata provider (search, getShowInfo, getSeasonInfo,     *)
(* getEpisodeInfo and the three normalisation routines _parseShow,         *)
(* _parseSeason, _parseEpisode).                                           *)
(*                                                                         *)
(* Python values are tagged records [t, v]; a Python string is a sequence  *)
(* of tokens (a token is one character where the code looks inside the     *)
(* string: digits, ':', '|', '.'; an opaque run of text otherwise).        *)
(***************************************************************************)
EXTENDS Integers, Sequences, FiniteSets, TLC

\* ------------------------------------------------------------------------
\* Bounds of the model
\* ------------------------------------------------------------------------

\* number of public operations one behaviour invokes
MaxCalls == 2

\* the client call of one operation at which a client error is injected, 0
\* for none: a search makes five calls at most (the name search, then a
\* detail fetch and an alias search for each of two results), getShowInfo
\* two, getSeasonInfo and getEpisodeInfo one
SearchFailPoints == 0..5

ShowFailPoints == 0..2

FetchFailPoints == 0..1

\* ------------------------------------------------------------------------
\* Python values
\* ------------------------------------------------------------------------

None == [t |-> "None", v |-> "None"]

PyFalse == [t |-> "bool", v |-> FALSE]

PyTrue == [t |-> "bool", v |-> TRUE]

PyStr(s) == [t |-> "str", v |-> s]

PyInt(n) == [t |-> "int", v |-> n]

PyList(s) == [t |-> "list", v |-> s]

PyDict(d) == [t |-> "dict", v |-> d]

EmptyDict == PyDict([k \in {} |-> None])

\* Python truth value of a value, as `if v`, `v or d` and the
\* `dict((k, v) ... if v)` filters use it
Truthy(x) ==
    CASE x.t = "None" -> FALSE
      [] x.t = "bool" -> x.v
      [] x.t = "int" -> x.v # 0
      [] x.t = "str" -> Len(x.v) > 0
      [] x.t = "list" -> Len(x.v) > 0
      [] x.t = "dict" -> DOMAIN x.v # {}
      [] OTHER -> TRUE

\* `a or b`
Or(a, b) == IF Truthy(a) THEN a ELSE b

\* d.get(k, dflt) on a raw mapping (a function from field names to values)
Get(d, k, dflt) == IF k \in DOMAIN d THEN d[k] ELSE dflt

\* dict((k, v) for k, v in d.iteritems() if v)
\* mutant of DropFalsy: only the None values are dropped
DropNone(d) == [k \in {x \in DOMAIN d : d[x] # None} |-> d[k]]

DropFalsy(d) == [k \in {x \in DOMAIN d : Truthy(d[x])} |-> d[k]]

\* ------------------------------------------------------------------------
\* Strings
\* ------------------------------------------------------------------------

Digits == <<"0", "1", "2", "3", "4", "5", "6", "7", "8", "9">>

DigitSet == {Digits[i] : i \in 1..10}

DigitVal(c) == (CHOOSE i \in 1..10 : Digits[i] = c) - 1

RECURSIVE NatVal(_)
NatVal(s) ==
    IF Len(s) = 0 THEN 0
    ELSE 10 * NatVal(SubSeq(s, 1, Len(s) - 1)) + DigitVal(s[Len(s)])

\* int(x) succeeds: x is a string of decimal digits with an optional sign
\* (int(None) is a TypeError, int('') and int('1:2') are ValueErrors)
IntParses(x) ==
    /\ x.t = "str"
    /\ LET body == IF Len(x.v) > 0 /\ x.v[1] = "-" THEN Tail(x.v) ELSE x.v
       IN  /\ Len(body) > 0
           /\ \A i \in 1..Len(body) : body[i] \in DigitSet

IntOf(x) ==
    IF x.v[1] = "-" THEN 0 - NatVal(Tail(x.v)) ELSE NatVal(x.v)

RECURSIVE NatStr(_)
NatStr(n) ==
    IF n < 10 THEN <<Digits[n + 1]>>
    ELSE NatStr(n \div 10) \o <<Digits[(n % 10) + 1]>>

\* str(n) of an integer
IntStr(n) == IF n < 0 THEN <<"-">> \o NatStr(0 - n) ELSE NatStr(n)

\* '%s' % x and str(x)
Fmt(x) ==
    CASE x.t = "None" -> <<"None">>
      [] x.t = "int" -> IntStr(x.v)
      [] x.t = "str" -> x.v
      [] x.t = "bool" -> IF x.v THEN <<"True">> ELSE <<"False">>
      [] OTHER -> <<"<object>">>

\* s.split(sep): the pieces of s between the occurrences of sep
RECURSIVE SplitFrom(_, _, _, _)
SplitFrom(s, sep, i, cur) ==
    IF i > Len(s) THEN <<cur>>
    ELSE IF s[i] = sep THEN <<cur>> \o SplitFrom(s, sep, i + 1, <<>>)
    ELSE SplitFrom(s, sep, i + 1, Append(cur, s[i]))

Split(s, sep) == SplitFrom(s, sep, 1, <<>>)

\* s.strip(ch)
RECURSIVE Strip(_, _)
Strip(s, ch) ==
    IF Len(s) > 0 /\ s[1] = ch THEN Strip(Tail(s), ch)
    ELSE IF Len(s) > 0 /\ s[Len(s)] = ch THEN Strip(SubSeq(s, 1, Len(s) - 1), ch)
    ELSE s

\* unicode text of a value (helpers.encoding.toUnicode): a string is kept, any
\* other value is rendered as str() renders it
toUnicode(x) == IF x.t = "str" THEN x ELSE PyStr(Fmt(x))

\* days of month m of year y, as datetime validates the day
DaysIn(y, m) ==
    IF m = 2
    THEN (IF (y % 4 = 0 /\ y % 100 # 0) \/ y % 400 = 0 THEN 29 ELSE 28)
    ELSE IF m \in {4, 6, 9, 11} THEN 30 ELSE 31

AllDigits(s) == \A i \in 1..Len(s) : s[i] \in DigitSet

\* datetime.strptime(x, '%Y-%m-%d') succeeds: four digits of year, one or two
\* of month and of day, a date of the calendar
DateParses(x) ==
    /\ x.t = "str"
    /\ LET p == Split(x.v, "-")
       IN  /\ Len(p) = 3
           /\ Len(p[1]) = 4 /\ AllDigits(p[1]) /\ NatVal(p[1]) >= 1
           /\ Len(p[2]) \in {1, 2} /\ AllDigits(p[2]) /\ NatVal(p[2]) \in 1..12
           /\ Len(p[3]) \in {1, 2} /\ AllDigits(p[3])
           /\ NatVal(p[3]) \in 1..DaysIn(NatVal(p[1]), NatVal(p[2]))

\* the `year` of _parseShow and _parseEpisode: None when firstaired is None
\* or does not parse
YearOf(firstaired) ==
    IF firstaired.t = "None" THEN None
    ELSE IF DateParses(firstaired) THEN PyInt(NatVal(Split(firstaired.v, "-")[1]))
    ELSE None

\* try: id = int(x) except: id = None
IntOrNone(x) == IF IntParses(x) THEN PyInt(IntOf(x)) ELSE None

\* ------------------------------------------------------------------------
\* Outcomes of a routine: a returned value or a raised exception, with the
\* number of calls made to the external client and of show details fetched
\* ------------------------------------------------------------------------

Return(val, calls, fetched, err) ==
    [kind |-> "return", val |-> val, calls |-> calls, fetched |-> fetched,
     err |-> err]

Raise(exc, calls, fetched, err) ==
    [kind |-> "raise", val |-> PyStr(<<exc>>), calls |-> calls,
     fetched |-> fetched, err |-> err]

\* ------------------------------------------------------------------------
\* _parseShow
\* ------------------------------------------------------------------------

\* the raw fields _parseShow reads with show[...]; reading one the show does
\* not carry raises tvdb_attributenotfound
ShowKeys ==
    {"poster", "fanart", "genre", "firstaired", "id", "seriesname", "imdb_id",
     "zap2it_id", "seriesid", "network", "networkid", "airs_dayofweek",
     "airs_time", "runtime", "contentrating", "rating", "ratingcount",
     "actors", "lastupdated", "status", "language"}

Genres(genre) ==
    IF genre.t = "None" THEN PyList(<<>>)
    ELSE LET p == Split(Strip(genre.v, "|"), "|")
         IN  PyList([i \in 1..Len(p) |-> PyStr(p[i])])

ImageList(x) == IF Truthy(x) THEN PyList(<<x>>) ELSE PyList(<<>>)

\* the show_data literal of _parseShow, before the falsy values are dropped
ShowData(d) ==
    [id |-> IntOrNone(d["id"]),
     type |-> PyStr(<<"show">>),
     primary_provider |-> PyStr(<<"thetvdb">>),
     titles |-> PyList(<<Or(d["seriesname"], PyStr(<<>>))>>),
     original_title |-> Or(d["seriesname"], PyStr(<<>>)),
     images |-> PyDict([poster |-> ImageList(Or(d["poster"], None)),
                        backdrop |-> ImageList(Or(d["fanart"], None)),
                        poster_original |-> PyList(<<>>),
                        backdrop_original |-> PyList(<<>>)]),
     year |-> YearOf(d["firstaired"]),
     genres |-> Genres(d["genre"]),
     imdb |-> Or(d["imdb_id"], None),
     zap2it_id |-> Or(d["zap2it_id"], None),
     seriesid |-> Or(d["seriesid"], None),
     network |-> Or(d["network"], None),
     networkid |-> Or(d["networkid"], None),
     airs_dayofweek |-> Or(d["airs_dayofweek"], None),
     airs_time |-> Or(d["airs_time"], None),
     firstaired |-> Or(d["firstaired"], None),
     released |-> Or(d["firstaired"], None),
     runtime |-> Or(d["runtime"], None),
     contentrating |-> Or(d["contentrating"], None),
     rating |-> Or(d["rating"], None),
     ratingcount |-> Or(d["ratingcount"], None),
     actors |-> Or(d["actors"], None),
     lastupdated |-> Or(d["lastupdated"], None),
     status |-> Or(d["status"], None),
     language |-> Or(d["language"], None)]

\* show_data = dict((k, v) for k, v in show_data.iteritems() if v)
ShowRecord(d) == DropFalsy(ShowData(d))

\* the alias titles the loop over the name-search results appends: those of
\* every result whose id is the record's and that carries alias names
RECURSIVE AliasTitles(_, _, _)
AliasTitles(raw, i, id) ==
    IF i > Len(raw) THEN <<>>
    ELSE LET info == raw[i]
             names == Get(info, "aliasnames", None)
             here == IF info["id"] = id /\ Truthy(names)
                     THEN LET p == Split(names.v, "|")
                          IN  [j \in 1..Len(p) |-> toUnicode(PyStr(p[j]))]
                     ELSE <<>>
         IN  here \o AliasTitles(raw, i + 1, id)

\* _parseShow(show). alias is what self.tvdb.search(show['seriesname'])
\* does: [err |-> TRUE] when it raises a client error, else its result list
ParseShow(show, alias) ==
    IF ~(ShowKeys \subseteq DOMAIN show.data)
    THEN Raise("tvdb_attributenotfound", 0, 0, FALSE)
    ELSE LET rec == ShowRecord(show.data)
         IN  IF alias.err THEN Return(PyDict(rec), 1, 0, TRUE)
             ELSE IF Len(alias.val) = 0 THEN Return(PyDict(rec), 1, 0, FALSE)
             ELSE IF "id" \notin DOMAIN rec THEN Raise("KeyError", 1, 0, FALSE)
             ELSE Return(
                    PyDict([rec EXCEPT !.titles =
                        PyList(rec.titles.v \o AliasTitles(alias.val, 1, rec.id))]),
                    1, 0, FALSE)

\* ------------------------------------------------------------------------
\* _parseSeason
\* ------------------------------------------------------------------------

\* the scan of show.data['_banners']['season']['season'] inside try/except:
\* the path of the first banner of this season whose two type fields are
\* 'season'; a banner of the season without a type field raises, which the
\* bare except turns into the poster list built so far (empty)
RECURSIVE BannerScan(_, _, _)
BannerScan(items, i, number) ==
    IF i > Len(items) THEN <<>>
    ELSE LET data == items[i]
         IN  IF Get(data, "season", None) # PyStr(IntStr(number))
             THEN BannerScan(items, i + 1, number)
             ELSE IF "bannertype" \notin DOMAIN data THEN <<>>
             ELSE IF data["bannertype"] # PyStr(<<"season">>)
             THEN BannerScan(items, i + 1, number)
             ELSE IF "bannertype2" \notin DOMAIN data THEN <<>>
             ELSE IF data["bannertype2"] # PyStr(<<"season">>)
             THEN BannerScan(items, i + 1, number)
             ELSE <<Get(data, "_bannerpath", None)>>

SeasonPoster(show, number) ==
    IF show.banners.ok THEN PyList(BannerScan(show.banners.items, 1, number))
    ELSE PyList(<<>>)

\* try: id = (show['id'] + ':' + str(number)) except: id = None
SeasonId(show, number) ==
    IF "id" \in DOMAIN show.data /\ show.data["id"].t = "str"
    THEN PyStr(show.data["id"].v \o <<":">> \o IntStr(number))
    ELSE None

SeasonTitle(show, number) ==
    toUnicode(PyStr(Fmt(Or(show.data["seriesname"], PyStr(<<>>)))
                    \o <<" - Season ">> \o IntStr(number)))

\* the season_data literal of _parseSeason
SeasonData(show, number) ==
    [id |-> SeasonId(show, number),
     type |-> PyStr(<<"season">>),
     primary_provider |-> PyStr(<<"thetvdb">>),
     titles |-> PyList(<<SeasonTitle(show, number)>>),
     original_title |-> SeasonTitle(show, number),
     via_thetvdb |-> PyTrue,
     parent_identifier |-> Or(show.data["id"], None),
     seasonnumber |-> PyStr(IntStr(number)),
     images |-> PyDict([poster |-> SeasonPoster(show, number),
                        backdrop |-> PyList(<<>>),
                        poster_original |-> PyList(<<>>),
                        backdrop_original |-> PyList(<<>>)]),
     year |-> None,
     genres |-> None,
     imdb |-> None]

\* _parseSeason(show, (number, season)); it calls the client nowhere
ParseSeason(show, number) ==
    IF ~({"seriesname", "id"} \subseteq DOMAIN show.data)
    THEN Raise("tvdb_attributenotfound", 0, 0, FALSE)
    ELSE Return(PyDict(DropFalsy(SeasonData(show, number))), 0, 0, FALSE)

\* ------------------------------------------------------------------------
\* _parseEpisode
\* ------------------------------------------------------------------------

EpisodePlot(show, e) ==
    PyStr(Fmt(Or(show.data["seriesname"], PyStr(<<>>))) \o <<" - ">>
          \o Fmt(Get(e, "seasonnumber", PyStr(<<"?">>))) \o <<"x">>
          \o Fmt(Get(e, "episodenumber", PyStr(<<"?">>))) \o <<" - ">>
          \o Fmt(Get(e, "overview", PyStr(<<>>))))

\* the episode_data literal of _parseEpisode
EpisodeData(show, e) ==
    [id |-> IntOrNone(Get(e, "id", None)),
     type |-> PyStr(<<"episode">>),
     primary_provider |-> PyStr(<<"thetvdb">>),
     via_thetvdb |-> PyTrue,
     thetvdb_id |-> IntOrNone(Get(e, "id", None)),
     titles |-> PyList(<<Get(e, "episodename", PyStr(<<>>))>>),
     original_title |-> Get(e, "episodename", PyStr(<<>>)),
     images |-> PyDict([poster |-> ImageList(Get(e, "filename", PyList(<<>>))),
                        backdrop |-> ImageList(PyList(<<>>)),
                        poster_original |-> PyList(<<>>),
                        backdrop_original |-> PyList(<<>>)]),
     imdb |-> Get(e, "imdb_id", None),
     runtime |-> None,
     released |-> Get(e, "firstaired", None),
     year |-> YearOf(Get(e, "firstaired", None)),
     plot |-> EpisodePlot(show, e),
     genres |-> PyList(<<>>),
     parent_identifier |-> Or(show.data["id"], None),
     seasonnumber |-> Get(e, "seasonnumber", None),
     episodenumber |-> Get(e, "episodenumber", None),
     combined_episodenumber |-> Get(e, "combined_episodenumber", None),
     absolute_number |-> Get(e, "absolute_number", None),
     combined_season |-> Get(e, "combined_season", None),
     productioncode |-> Get(e, "productioncode", None),
     seriesid |-> Get(e, "seriesid", None),
     seasonid |-> Get(e, "seasonid", None),
     firstaired |-> Get(e, "firstaired", None),
     thumb_added |-> Get(e, "thumb_added", None),
     thumb_height |-> Get(e, "thumb_height", None),
     thumb_width |-> Get(e, "thumb_width", None),
     rating |-> Get(e, "rating", None),
     ratingcount |-> Get(e, "ratingcount", None),
     epimgflag |-> Get(e, "epimgflag", None),
     dvd_episodenumber |-> Get(e, "dvd_episodenumber", None),
     dvd_discid |-> Get(e, "dvd_discid", None),
     dvd_chapter |-> Get(e, "dvd_chapter", None),
     dvd_season |-> Get(e, "dvd_season", None),
     tms_export |-> Get(e, "tms_export", None),
     writer |-> Get(e, "writer", None),
     director |-> Get(e, "director", None),
     gueststars |-> Get(e, "gueststars", None),
     lastupdated |-> Get(e, "lastupdated", None),
     language |-> Get(e, "language", None)]

\* _parseEpisode(show, episode); it calls the client nowhere
ParseEpisode(show, e) ==
    IF ~({"seriesname", "id"} \subseteq DOMAIN show.data)
    THEN Raise("tvdb_attributenotfound", 0, 0, FALSE)
    ELSE Return(PyDict(DropFalsy(EpisodeData(show, e))), 0, 0, FALSE)

\* ------------------------------------------------------------------------
\* The external show database behind the tvdb_api client
\* ------------------------------------------------------------------------

\* a raw show's fields: the six the code looks into, and one value for all
\* the fields it copies with `show[k] or None`
MkData(id, name, poster, fanart, genre, firstaired, rest) ==
    [k \in ShowKeys |->
        CASE k = "id" -> id
          [] k = "seriesname" -> name
          [] k = "poster" -> poster
          [] k = "fanart" -> fanart
          [] k = "genre" -> genre
          [] k = "firstaired" -> firstaired
          [] OTHER -> rest]

NoBanners == [ok |-> FALSE, items |-> <<>>]

Banner(season, type, type2, path) ==
    [season |-> season, bannertype |-> type, bannertype2 |-> type2,
     _bannerpath |-> path]

MkEpisode(id, season, number) ==
    [id |-> id, seasonnumber |-> season, episodenumber |-> number,
     episodename |-> PyStr(<<"Pilot">>), overview |-> None,
     firstaired |-> PyStr(<<"2", "0", "1", "1", "-", "0", "9", "-", "1", "9">>),
     filename |-> PyStr(<<"http://thetvdb.com/banners/episodes/1.jpg">>),
     rating |-> PyStr(<<"7", ".", "7">>), imdb_id |-> PyStr(<<>>)]

NoSeasons == [n \in {} |-> 0]

\* show 1: two seasons, three episodes; show 2: no season at all
Show1 ==
    [data |-> MkData(PyStr(<<"1">>), PyStr(<<"A">>),
                     PyStr(<<"http://thetvdb.com/banners/posters/1.jpg">>), None,
                     PyStr(<<"|", "Crime", "|", "Drama", "|">>),
                     PyStr(<<"2", "0", "0", "8", "-", "0", "1", "-", "2", "0">>),
                     PyStr(<<"v">>)),
     seasons |->
        [n \in {1, 2} |->
            IF n = 1
            THEN [e \in {1, 2} |->
                    MkEpisode(PyStr(<<"1", Digits[e + 1]>>), PyStr(<<"1">>),
                              PyStr(<<Digits[e + 1]>>))]
            ELSE [e \in {1} |->
                    MkEpisode(PyStr(<<"2", "1">>), PyStr(<<"2">>), PyStr(<<"1">>))]],
     banners |->
        [ok |-> TRUE,
         items |-> <<Banner(PyStr(<<"1">>), PyStr(<<"season">>), PyStr(<<"season">>),
                            PyStr(<<"http://thetvdb.com/banners/seasons/1-1.jpg">>))>>]]

Show2 ==
    [data |-> MkData(PyStr(<<"2">>), PyStr(<<"B">>), None, None, None, None, None),
     seasons |-> NoSeasons,
     banners |-> NoBanners]

TheDb == [id \in {1, 2} |-> IF id = 1 THEN Show1 ELSE Show2]

Summary(id, name, aliases) ==
    [id |-> PyInt(id), seriesname |-> name, aliasnames |-> aliases]

\* what the site's search by name answers
NameIndex(name) ==
    CASE name = <<"1">> ->
            <<Summary(1, PyStr(<<"A">>), PyStr(<<"A1", "|", "A2">>)),
              Summary(2, PyStr(<<"B">>), None)>>
      [] name = <<"A">> -> <<Summary(1, PyStr(<<"A">>), PyStr(<<"A1", "|", "A2">>))>>
      [] OTHER -> <<>>

\* self.tvdb[id]: the show's detail, or a tvdb_error / IOError (fails: the
\* transport fails on this call; an id the site does not know fails too)
ClientGet(id, fails) ==
    IF fails \/ id \notin DOMAIN TheDb THEN [err |-> TRUE, val |-> None]
    ELSE [err |-> FALSE, val |-> TheDb[id]]

\* self.tvdb.search(name): the list of summaries, or a tvdb_error / IOError
ClientSearch(name, fails) ==
    IF fails THEN [err |-> TRUE, val |-> <<>>]
    ELSE [err |-> FALSE, val |-> NameIndex(name)]

\* _parseShow(self.tvdb[id]) for every show of the site, with the alias search
\* failing or not (tabulated: the site's data does not change)
ParsedShow ==
    [id \in DOMAIN TheDb |->
        [fails \in BOOLEAN |->
            ParseShow(TheDb[id],
                      ClientSearch(TheDb[id].data["seriesname"].v, fails))]]

\* _parseSeason(show, (number, season)) for every season of every show
ParsedSeason ==
    [id \in DOMAIN TheDb |->
        [n \in DOMAIN TheDb[id].seasons |-> ParseSeason(TheDb[id], n)]]

\* _parseEpisode(show, episode) for every episode of every show
ParsedEpisode ==
    [id \in DOMAIN TheDb |->
        [n \in DOMAIN TheDb[id].seasons |->
            [e \in DOMAIN TheDb[id].seasons[n] |->
                ParseEpisode(TheDb[id], TheDb[id].seasons[n][e])]]]

\* ------------------------------------------------------------------------
\* Host collaborators: configuration, cache, string helpers
\* ------------------------------------------------------------------------

\* self.getCache(cache_key): the stored value, None when there is none
getCache(c, k) == IF k \in DOMAIN c THEN c[k] ELSE None

\* mutant of CacheHit: the cached value is never used
CacheHitNever(result) == FALSE

\* `if not results:` (line 65), `if result: return result` (lines 110, 138,
\* 180): a cached value answers the call only when it is truthy
CacheHit(result) == Truthy(result)

\* self.setCache(cache_key, value)
setCache(c, k, val) == [x \in DOMAIN c \cup {k} |-> IF x = k THEN val ELSE c[x]]

LowerOf(ch) ==
    CASE ch = "A" -> "a"
      [] ch = "B" -> "b"
      [] ch \in {":", ".", "|", "-", "_"} -> " "
      [] OTHER -> ch

\* helpers.encoding.simplifyString: lower case, punctuation to blanks
simplifyString(q) == [i \in 1..Len(q) |-> LowerOf(q[i])]

\* 'thetvdb.cache.%s' % a
CacheKey1(a) == <<"thetvdb.cache.">> \o Fmt(a)

\* 'thetvdb.cache.%s.%s' % (a, b)
CacheKey2(a, b) == <<"thetvdb.cache.">> \o Fmt(a) \o <<".">> \o Fmt(b)

\* 'thetvdb.cache.%s.%s.%s' % (a, b, c)
CacheKey3(a, b, c) ==
    <<"thetvdb.cache.">> \o Fmt(a) \o <<".">> \o Fmt(b) \o <<".">> \o Fmt(c)

\* self.tvdb.config['valid_languages'], cut to two
valid_languages == {"en", "fr"}

\* isDisabled(): both branches evaluate a bare True / False and fall off the
\* end of the function, so it returns None whatever the key is
isDisabled(key) == IF key = "" THEN None ELSE None

\* ------------------------------------------------------------------------
\* The public operations. Each gives the outcome of the call and the cache
\* and the client language it leaves; f is the client call (first, second,
\* ...) of this operation on which the transport fails, 0 for none.
\* ------------------------------------------------------------------------

Run(out, c, lg, key) == [out |-> out, cache |-> c, language |-> lg, key |-> key]

\* no cache entry was read / written
NoKey == <<>>

\* mutant of LimitReached: the loop stops one result late
LimitReachedLate(nr, limit) == nr = limit + 1

\* if nr == limit: break
LimitReached(nr, limit) == nr = limit

\* search: the loop over the name-search results (lines 76-89). acc carries
\* the records appended so far, the client calls and the detail fetches made,
\* and whether an alias search failed
RECURSIVE SearchLoop(_, _, _, _, _)
SearchLoop(raw, i, acc, f, limit) ==
    IF i > Len(raw)
    THEN Return(PyList(acc.results), acc.calls, acc.fetched, acc.err)
    ELSE LET got == ClientGet(raw[i]["id"].v, f = acc.calls + 1)
         IN  IF got.err
             THEN \* line 88 formats `show`, which the first iteration has not bound
                  IF i = 1
                  THEN Raise("UnboundLocalError", acc.calls + 1, acc.fetched + 1, TRUE)
                  ELSE Return(PyFalse, acc.calls + 1, acc.fetched + 1, TRUE)
             ELSE LET ps == ParsedShow[raw[i]["id"].v][f = acc.calls + 2]
                  IN  IF ps.kind = "raise"
                      THEN Raise(ps.val.v[1], acc.calls + 1 + ps.calls,
                                 acc.fetched + 1, acc.err)
                      ELSE LET acc2 == [results |-> Append(acc.results, ps.val),
                                        calls |-> acc.calls + 1 + ps.calls,
                                        fetched |-> acc.fetched + 1,
                                        err |-> acc.err \/ ps.err]
                           IN  IF LimitReached(Len(acc2.results), limit)
                               THEN Return(PyList(acc2.results), acc2.calls,
                                           acc2.fetched, acc2.err)
                               ELSE SearchLoop(raw, i + 1, acc2, f, limit)

\* search(q, limit, language)
Search(c, lg, key, q, limit, lang, f) ==
    IF Truthy(isDisabled(key)) THEN Run(Return(PyFalse, 0, 0, FALSE), c, lg, NoKey)
    ELSE LET lg2 == IF lang # lg /\ lang \in valid_languages THEN lang ELSE lg
             search_string == simplifyString(q)
             cache_key == CacheKey2(PyStr(search_string), PyInt(limit))
             results == getCache(c, cache_key)
         IN  IF CacheHit(results)
             THEN Run(Return(results, 0, 0, FALSE), c, lg2, cache_key)
             ELSE LET raw == ClientSearch(search_string, f = 1)
                  IN  IF raw.err THEN Run(Return(PyFalse, 1, 0, TRUE), c, lg2, NoKey)
                      ELSE IF Len(raw.val) = 0
                      THEN Run(Return(PyList(<<>>), 1, 0, FALSE), c, lg2, NoKey)
                      ELSE LET out == SearchLoop(raw.val, 1,
                                         [results |-> <<>>, calls |-> 1,
                                          fetched |-> 0, err |-> FALSE], f, limit)
                           IN  IF out.kind = "return" /\ out.val.t = "list"
                               THEN Run(out, setCache(c, cache_key, out.val), lg2,
                                        cache_key)
                               ELSE Run(out, c, lg2, NoKey)

\* getShowInfo(identifier), with getShow inlined
GetShowInfo(c, lg, identifier, f) ==
    IF ~Truthy(identifier) THEN Run(Return(None, 0, 0, FALSE), c, lg, NoKey)
    ELSE LET cache_key == CacheKey1(identifier)
             result == Or(getCache(c, cache_key), EmptyDict)
         IN  IF CacheHit(result) THEN Run(Return(result, 0, 0, FALSE), c, lg, cache_key)
             ELSE IF ~IntParses(identifier)
             THEN Run(Raise("ValueError", 0, 0, FALSE), c, lg, NoKey)
             ELSE LET got == ClientGet(IntOf(identifier), f = 1)
                  IN  IF got.err THEN Run(Return(EmptyDict, 1, 1, TRUE), c, lg, NoKey)
                      ELSE IF DOMAIN got.val.seasons = {}
                      THEN Run(Return(EmptyDict, 1, 1, FALSE), c, lg, NoKey)
                      ELSE LET ps == ParsedShow[IntOf(identifier)][f = 2]
                           IN  IF ps.kind = "raise"
                               THEN Run(Raise(ps.val.v[1], 1 + ps.calls, 1, FALSE),
                                        c, lg, NoKey)
                               ELSE Run(Return(ps.val, 1 + ps.calls, 1, ps.err),
                                        setCache(c, cache_key, ps.val), lg, cache_key)

\* the elements of a finite set of integers in ascending order: the order in
\* which show.items() and season.values() give small integer keys
RECURSIVE Ascending(_)
Ascending(S) ==
    IF S = {} THEN <<>>
    ELSE LET m == CHOOSE x \in S : \A y \in S : x <= y
         IN  <<m>> \o Ascending(S \ {m})

\* int(season_identifier.split(':')[1]) succeeds
SeasonSelectorParses(sel) ==
    /\ sel.t = "str"
    /\ Len(Split(sel.v, ":")) >= 2
    /\ IntParses(PyStr(Split(sel.v, ":")[2]))

SeasonSelectorNumber(sel) == PyInt(IntOf(PyStr(Split(sel.v, ":")[2])))

\* mutant of SeasonSelectorFailure: the handler answers None, as that of
\* getEpisodeInfo does
SeasonSelectorFailureNone == None

\* getSeasonInfo: except: return False
SeasonSelectorFailure == PyFalse

\* getSeasonInfo: the loop over show.items() (lines 147-157): the record of
\* the selected season alone, or the list of the records of all seasons
RECURSIVE SeasonLoop(_, _, _, _, _)
SeasonLoop(id, nums, i, sid, acc) ==
    IF i > Len(nums) THEN Return(PyList(acc), 1, 1, FALSE)
    ELSE LET ps == ParsedSeason[id][nums[i]]
         IN  IF ps.kind = "raise" THEN Raise(ps.val.v[1], 1, 1, FALSE)
             ELSE IF sid.t # "None" /\ PyInt(nums[i]) = sid
             THEN Return(ps.val, 1, 1, FALSE)
             ELSE SeasonLoop(id, nums, i + 1, sid, Append(acc, ps.val))

\* getSeasonInfo(identifier, params = {'season_identifier': sel})
GetSeasonInfo(c, lg, identifier, sel, f) ==
    IF ~Truthy(identifier) THEN Run(Return(PyFalse, 0, 0, FALSE), c, lg, NoKey)
    ELSE IF Truthy(sel) /\ ~SeasonSelectorParses(sel)
    THEN Run(Return(SeasonSelectorFailure, 0, 0, FALSE), c, lg, NoKey)
    ELSE LET sid == IF Truthy(sel) THEN SeasonSelectorNumber(sel) ELSE sel
             cache_key == CacheKey2(identifier, sid)
             result == Or(getCache(c, cache_key), EmptyDict)
         IN  IF CacheHit(result) THEN Run(Return(result, 0, 0, FALSE), c, lg, cache_key)
             ELSE IF ~IntParses(identifier)
             THEN Run(Raise("ValueError", 0, 0, FALSE), c, lg, NoKey)
             ELSE LET got == ClientGet(IntOf(identifier), f = 1)
                  IN  IF got.err
                      THEN \* line 144 formats `show`, which the failed lookup left unbound
                           Run(Raise("UnboundLocalError", 1, 1, TRUE), c, lg, NoKey)
                      ELSE LET out == SeasonLoop(IntOf(identifier),
                                          Ascending(DOMAIN got.val.seasons), 1, sid, <<>>)
                           IN  IF out.kind = "raise" THEN Run(out, c, lg, NoKey)
                               ELSE Run(out, setCache(c, cache_key, out.val), lg,
                                        cache_key)

\* the episodes getEpisodeInfo walks through, each as <<season, number>>:
\* those of every season, or of the selected season alone
RECURSIVE EpisodesOf(_, _, _, _)
EpisodesOf(show, nums, i, sid) ==
    IF i > Len(nums) THEN <<>>
    ELSE LET eps == Ascending(DOMAIN show.seasons[nums[i]])
             here == IF sid.t # "None" /\ PyInt(nums[i]) # sid THEN <<>>
                     ELSE [j \in 1..Len(eps) |-> <<nums[i], eps[j]>>]
         IN  here \o EpisodesOf(show, nums, i + 1, sid)

\* getEpisodeInfo: the loop over the episodes (lines 189-203): the record of
\* the selected episode alone, or the list of the records of all of them
RECURSIVE EpisodeLoop(_, _, _, _, _)
EpisodeLoop(id, eps, i, esel, acc) ==
    IF i > Len(eps) THEN Return(PyList(acc), 1, 1, FALSE)
    ELSE LET episode == TheDb[id].seasons[eps[i][1]][eps[i][2]]
             ps == ParsedEpisode[id][eps[i][1]][eps[i][2]]
         IN  IF esel.t # "None" /\ "id" \notin DOMAIN episode
             THEN Raise("tvdb_attributenotfound", 1, 1, FALSE)
             ELSE IF ps.kind = "raise" THEN Raise(ps.val.v[1], 1, 1, FALSE)
             ELSE IF esel.t # "None" /\ episode["id"] = toUnicode(esel)
             THEN Return(ps.val, 1, 1, FALSE)
             ELSE EpisodeLoop(id, eps, i + 1, esel, Append(acc, ps.val))

\* identifier, season_identifier = season_identifier.split(':') and
\* int(season_identifier) succeed
EpisodeSelectorParses(sel) ==
    /\ sel.t = "str"
    /\ Len(Split(sel.v, ":")) = 2
    /\ IntParses(PyStr(Split(sel.v, ":")[2]))

\* getEpisodeInfo(identifier, params = {'season_identifier': ssel,
\*                                      'episode_identifier': esel})
GetEpisodeInfo(c, lg, ident, ssel, esel, f) ==
    IF ~Truthy(ident) /\ ssel.t = "None"
    THEN Run(Return(PyFalse, 0, 0, FALSE), c, lg, NoKey)
    ELSE IF Truthy(ssel) /\ ~EpisodeSelectorParses(ssel)
    THEN Run(Return(None, 0, 0, FALSE), c, lg, NoKey)
    ELSE LET identifier == IF Truthy(ssel) THEN PyStr(Split(ssel.v, ":")[1]) ELSE ident
             sid == IF Truthy(ssel) THEN SeasonSelectorNumber(ssel) ELSE ssel
             cache_key == CacheKey3(identifier, esel, sid)
             result == Or(getCache(c, cache_key), EmptyDict)
         IN  IF CacheHit(result) THEN Run(Return(result, 0, 0, FALSE), c, lg, cache_key)
             ELSE IF identifier.t # "str"
             THEN Run(Raise("TypeError", 0, 0, FALSE), c, lg, NoKey)
             ELSE IF ~IntParses(identifier)
             THEN Run(Raise("ValueError", 0, 0, FALSE), c, lg, NoKey)
             ELSE LET got == ClientGet(IntOf(identifier), f = 1)
                  IN  IF got.err
                      THEN \* line 186 formats `show`, which the failed lookup left unbound
                           Run(Raise("UnboundLocalError", 1, 1, TRUE), c, lg, NoKey)
                      ELSE LET eps == EpisodesOf(got.val,
                                          Ascending(DOMAIN got.val.seasons), 1, sid)
                               out == EpisodeLoop(IntOf(identifier), eps, 1, esel, <<>>)
                           IN  IF out.kind = "raise" THEN Run(out, c, lg, NoKey)
                               ELSE Run(out, setCache(c, cache_key, out.val), lg,
                                        cache_key)

\* ------------------------------------------------------------------------
\* State
\* ------------------------------------------------------------------------

VARIABLES
    api_key,    \* self.conf('api_key')
    language,   \* self.tvdb_api_parms['language'], the client's language
    cache,      \* the host cache: cache key -> stored value
    writer,     \* history: cache key -> the operation that stored its value
    ncalls,     \* number of public operations invoked so far
    raw,        \* the raw detail handed to a normalisation routine
    result,     \* the outcome of the normalisation routine applied to raw
    tvdb,       \* self.tvdb: the language the current client object was built for
    threads,    \* the search calls in progress: thread -> its locals and position
    parmBy,     \* history: the thread that last wrote tvdb_api_parms['language']
    tvdbBy      \* history: the thread whose language the last _setup() read

vars == <<api_key, language, cache, writer, ncalls, raw, result, tvdb, threads,
          parmBy, tvdbBy>>

NoOutcome == [kind |-> "none", val |-> None, calls |-> 0, fetched |-> 0, err |-> FALSE]

NoInput == [kind |-> "none"]

\* ------------------------------------------------------------------------
\* Inputs of the public operations
\* ------------------------------------------------------------------------

Queries == {<<"1">>, <<"B">>}

Limits == {-1, 0, 1, 2}

Languages == {"en", "fr", "xx"}

\* '1' is show 1, '2' the show without seasons
Identifiers == {None, PyStr(<<"1">>), PyStr(<<"2">>), PyStr(<<"x">>)}

SeasonSelectors ==
    {None, PyStr(<<>>), PyStr(<<"1", ":", "1">>), PyStr(<<"1", ":", "3">>),
     PyStr(<<"x">>), PyStr(<<"1", ":", "x">>), PyStr(<<"1", ":", "1", ":", "2">>)}

\* for getEpisodeInfo: show 1 directly or through its season 1
EpisodeIdentifiers == {None, PyStr(<<"1">>), PyStr(<<"x">>)}

EpisodeSeasonSelectors ==
    {None, PyStr(<<"1", ":", "1">>), PyStr(<<"x">>), PyStr(<<"1", ":", "1", ":", "2">>)}

\* 12 is the id of an episode of season 1, 99 of none
EpisodeSelectors == {None, PyInt(12), PyStr(<<"9", "9">>)}

\* the api_key option's default (config, line 489)
DefaultApiKey == "7966C02F860586D2"

\* ------------------------------------------------------------------------
\* Actions: one per public operation, invoked by the host's event bus
\* ------------------------------------------------------------------------

\* 'language': 'en' (line 36)
InitialLanguage == "en"

\* no thread (the value of parmBy and tvdbBy before any call)
NoThread == "none"

\* __init__: the client is built from the initial parameters; no call runs
NoCallRunning ==
    /\ tvdb = InitialLanguage
    /\ threads = <<>>
    /\ parmBy = NoThread
    /\ tvdbBy = NoThread

Init ==
    /\ api_key = DefaultApiKey
    /\ language = "en"
    /\ cache = <<>>
    /\ writer = <<>>
    /\ ncalls = 0
    /\ raw = NoInput
    /\ result = NoOutcome
    /\ NoCallRunning

\* the call read its result from the cache entry r.key
Hit(r) == r.key # NoKey /\ r.out.calls = 0

\* the call stored its result under r.key (every store follows a client call)
Stored(r) == r.key # NoKey /\ r.out.calls > 0

Step(op, r) ==
    /\ ncalls < MaxCalls
    /\ ncalls' = ncalls + 1
    /\ cache' = r.cache
    /\ language' = r.language
    /\ writer' = IF Stored(r) THEN setCache(writer, r.key, op) ELSE writer
    /\ tvdb' = r.language
    /\ UNCHANGED <<api_key, raw, result, threads, parmBy, tvdbBy>>

SearchCall ==
    \E q \in Queries, limit \in Limits, lang \in Languages, f \in SearchFailPoints :
        Step("search", Search(cache, language, api_key, q, limit, lang, f))

GetShowInfoCall ==
    \E identifier \in Identifiers, f \in ShowFailPoints :
        Step("getShowInfo", GetShowInfo(cache, language, identifier, f))

GetSeasonInfoCall ==
    \E identifier \in Identifiers, sel \in SeasonSelectors, f \in FetchFailPoints :
        Step("getSeasonInfo", GetSeasonInfo(cache, language, identifier, sel, f))

GetEpisodeInfoCall ==
    \E identifier \in EpisodeIdentifiers, ssel \in EpisodeSeasonSelectors,
       esel \in EpisodeSelectors, f \in FetchFailPoints :
        Step("getEpisodeInfo",
             GetEpisodeInfo(cache, language, identifier, ssel, esel, f))

Next ==
    \/ SearchCall
    \/ GetShowInfoCall
    \/ GetSeasonInfoCall
    \/ GetEpisodeInfoCall

Spec == Init /\ [][Next]_vars

\* the provider with the API key set to the empty string
InitDisabled ==
    /\ api_key = ""
    /\ language = "en"
    /\ cache = <<>>
    /\ writer = <<>>
    /\ ncalls = 0
    /\ raw = NoInput
    /\ result = NoOutcome
    /\ NoCallRunning

SpecDisabled == InitDisabled /\ [][Next]_vars

\* ------------------------------------------------------------------------
\* The normalisation routines on their own: every raw detail of a bounded
\* set is handed to _parseShow, _parseSeason or _parseEpisode
\* ------------------------------------------------------------------------

\* a field the raw detail does not carry
Missing == [t |-> "missing", v |-> "missing"]

\* the mapping without its missing fields
Present(d) == [k \in {x \in DOMAIN d : d[x] # Missing} |-> d[k]]

Url == PyStr(<<"http://thetvdb.com/banners/1.jpg">>)

RawIds == {None, PyStr(<<>>), PyStr(<<"0">>), PyStr(<<"1">>), PyStr(<<"x">>)}

RawNames == {None, PyStr(<<>>), PyStr(<<"A">>)}

RawImages == {None, PyStr(<<>>), Url}

RawGenres == {None, PyStr(<<>>), PyStr(<<"|", "Crime", "|", "Drama", "|">>)}

RawDates ==
    {None, PyStr(<<>>),
     PyStr(<<"2", "0", "0", "8", "-", "0", "1", "-", "2", "0">>),
     PyStr(<<"2", "0", "0", "8", "-", "0", "2", "-", "3", "0">>)}

RawRest == {None, PyStr(<<>>), PyStr(<<"v">>)}

RawShowData ==
    {MkData(id, name, poster, None, genre, firstaired, rest) :
        id \in RawIds, name \in RawNames, poster \in RawImages,
        genre \in RawGenres, firstaired \in RawDates, rest \in RawRest}
    \cup {Present(MkData(PyStr(<<"1">>), PyStr(<<"A">>), Missing, None, None, None,
                         None))}

\* what the alias search of _parseShow may answer
AliasResults ==
    {[err |-> TRUE, val |-> <<>>],
     [err |-> FALSE, val |-> <<>>],
     [err |-> FALSE, val |-> <<Summary(1, PyStr(<<"A">>), PyStr(<<"A1", "|", "A2">>))>>],
     [err |-> FALSE, val |-> <<Summary(2, PyStr(<<"B">>), None),
                               Summary(1, PyStr(<<"A">>), PyStr(<<"A1">>))>>]}

ShowInputs ==
    {[kind |-> "show", show |-> [data |-> d, seasons |-> NoSeasons, banners |-> NoBanners],
      alias |-> a] : d \in RawShowData, a \in AliasResults}

RawBanners ==
    {NoBanners,
     [ok |-> TRUE, items |-> <<>>],
     [ok |-> TRUE, items |-> <<Banner(PyStr(<<"1">>), PyStr(<<"season">>),
                                      PyStr(<<"season">>), Url)>>],
     [ok |-> TRUE, items |-> <<Banner(PyStr(<<"2">>), PyStr(<<"season">>),
                                      PyStr(<<"season">>), Url),
                               Banner(PyStr(<<"1">>), PyStr(<<"season">>),
                                      PyStr(<<"seasonwide">>), Url),
                               Banner(PyStr(<<"1">>), PyStr(<<"season">>),
                                      PyStr(<<"season">>), None)>>],
     [ok |-> TRUE, items |-> <<Present(Banner(PyStr(<<"1">>), Missing,
                                              PyStr(<<"season">>), Url)),
                               Banner(PyStr(<<"1">>), PyStr(<<"season">>),
                                      PyStr(<<"season">>), Url)>>],
     [ok |-> TRUE, items |-> <<Present(Banner(PyStr(<<"1">>), PyStr(<<"season">>),
                                              PyStr(<<"season">>), Missing))>>]}

SeasonNumbers == {0, 1, 12}

SeasonInputs ==
    {[kind |-> "season",
      show |-> [data |-> Present(MkData(id, name, None, None, None, None, None)),
                seasons |-> NoSeasons, banners |-> b],
      number |-> n] :
        id \in RawIds \cup {Missing}, name \in RawNames \cup {Missing},
        b \in RawBanners, n \in SeasonNumbers}

RawEpisodes ==
    {Present([id |-> id, episodename |-> name, filename |-> filename,
              firstaired |-> firstaired, seasonnumber |-> number,
              episodenumber |-> number, overview |-> name, rating |-> name]) :
        id \in RawIds \cup {Missing}, name \in RawNames \cup {Missing},
        filename \in RawImages \cup {Missing},
        firstaired \in RawDates \cup {Missing},
        number \in {Missing, None, PyStr(<<"1">>)}}

EpisodeInputs ==
    {[kind |-> "episode",
      show |-> [data |-> Present(MkData(id, PyStr(<<"A">>), None, None, None, None,
                                        None)),
                seasons |-> NoSeasons, banners |-> NoBanners],
      episode |-> e] : id \in {Missing, None, PyStr(<<"1">>)}, e \in RawEpisodes}

InitNorm ==
    /\ api_key = DefaultApiKey
    /\ language = "en"
    /\ cache = <<>>
    /\ writer = <<>>
    /\ ncalls = 0
    /\ raw \in ShowInputs \cup SeasonInputs \cup EpisodeInputs
    /\ result = NoOutcome
    /\ NoCallRunning

Normalise(out) ==
    /\ result = NoOutcome
    /\ result' = out
    /\ UNCHANGED <<api_key, language, cache, writer, ncalls, raw, tvdb, threads,
                   parmBy, tvdbBy>>

ParseShowCall == raw.kind = "show" /\ Normalise(ParseShow(raw.show, raw.alias))

ParseSeasonCall == raw.kind = "season" /\ Normalise(ParseSeason(raw.show, raw.number))

ParseEpisodeCall == raw.kind = "episode" /\ Normalise(ParseEpisode(raw.show, raw.episode))

NextNorm ==
    \/ ParseShowCall
    \/ ParseSeasonCall
    \/ ParseEpisodeCall

SpecNorm == InitNorm /\ [][NextNorm]_vars

\* ------------------------------------------------------------------------
\* Two search calls running at once. The host runs event handlers in threads
\* and search takes no lock, so the calls interleave between the statements
\* of lines 54-90; each action below is one such statement block of one call.
\* ------------------------------------------------------------------------

Threads == {"t1", "t2"}

\* search(self, q, limit = 12, language = 'en')
DefaultLimit == 12

\* no language: the call has not reached its name-search
NoLanguage == ""

ThreadStarts ==
    {[pc |-> "start", q |-> q, limit |-> DefaultLimit, lang |-> lang,
      used |-> NoLanguage, seen |-> NoThread, raw |-> <<>>, out |-> NoOutcome] :
        q \in Queries, lang \in Languages}

InitRace ==
    /\ api_key = DefaultApiKey
    /\ language = InitialLanguage
    /\ cache = <<>>
    /\ writer = <<>>
    /\ ncalls = 0
    /\ raw = NoInput
    /\ result = NoOutcome
    /\ tvdb = InitialLanguage
    /\ threads \in [Threads -> ThreadStarts]
    /\ parmBy = NoThread
    /\ tvdbBy = NoThread

\* thread t moves to pc, its other locals as in upd
Goto(t, pc, upd) ==
    threads' = [threads EXCEPT ![t] = [k \in DOMAIN @ |->
                   IF k = "pc" THEN pc
                   ELSE IF k \in DOMAIN upd THEN upd[k] ELSE @[k]]]

NoUpdate == <<>>

\* mutant of SetupClient: the client is built without the language parameter
SetupClientDefault(parms_language) == InitialLanguage

\* _setup: tvdb_api.Tvdb(**self.tvdb_api_parms), built for the language the
\* shared parameters hold when it runs
SetupClient(parms_language) == parms_language

\* line 69: self.tvdb.search(...) goes through the client object shared by
\* all calls, whatever language the call itself asked for
ClientUsed(own, shared) == shared

\* lines 54-55: if self.isDisabled(): return False
CheckDisabled(t) ==
    /\ threads[t].pc = "start"
    /\ IF Truthy(isDisabled(api_key))
       THEN Goto(t, "done", [out |-> Return(PyFalse, 0, 0, FALSE)])
       ELSE Goto(t, "test", NoUpdate)
    /\ UNCHANGED <<api_key, language, cache, writer, ncalls, raw, result, tvdb,
                   parmBy, tvdbBy>>

\* line 57: the test of the requested language against the shared parameter
TestLanguage(t) ==
    /\ threads[t].pc = "test"
    /\ IF threads[t].lang # language /\ threads[t].lang \in valid_languages
       THEN Goto(t, "set", NoUpdate)
       ELSE Goto(t, "lookup", NoUpdate)
    /\ UNCHANGED <<api_key, language, cache, writer, ncalls, raw, result, tvdb,
                   parmBy, tvdbBy>>

\* line 58: self.tvdb_api_parms['language'] = language
SetLanguage(t) ==
    /\ threads[t].pc = "set"
    /\ language' = threads[t].lang
    /\ parmBy' = t
    /\ Goto(t, "setup", NoUpdate)
    /\ UNCHANGED <<api_key, cache, writer, ncalls, raw, result, tvdb, tvdbBy>>

\* line 59: self._setup() replaces the shared client (lines 42-43)
Setup(t) ==
    /\ threads[t].pc = "setup"
    /\ tvdb' = SetupClient(language)
    /\ tvdbBy' = parmBy
    /\ Goto(t, "lookup", NoUpdate)
    /\ UNCHANGED <<api_key, language, cache, writer, ncalls, raw, result, parmBy>>

\* lines 61-65: the cache lookup
Lookup(t) ==
    /\ threads[t].pc = "lookup"
    /\ LET cache_key == CacheKey2(PyStr(simplifyString(threads[t].q)),
                                  PyInt(threads[t].limit))
           results == getCache(cache, cache_key)
       IN  IF CacheHit(results)
           THEN Goto(t, "done", [out |-> Return(results, 0, 0, FALSE)])
           ELSE Goto(t, "search", NoUpdate)
    /\ UNCHANGED <<api_key, language, cache, writer, ncalls, raw, result, tvdb,
                   parmBy, tvdbBy>>

\* lines 67-75: the name-search through self.tvdb, which may fail
NameSearch(t) ==
    /\ threads[t].pc = "search"
    /\ \E fails \in BOOLEAN :
           LET got == ClientSearch(simplifyString(threads[t].q), fails)
               here == [used |-> ClientUsed(threads[t].lang, tvdb), seen |-> tvdbBy]
           IN  IF got.err
               THEN Goto(t, "done", here @@ [out |-> Return(PyFalse, 1, 0, TRUE)])
               ELSE IF Len(got.val) = 0
               THEN Goto(t, "done", here @@ [out |-> Return(PyList(<<>>), 1, 0, FALSE)])
               ELSE Goto(t, "loop", here @@ [raw |-> got.val])
    /\ UNCHANGED <<api_key, language, cache, writer, ncalls, raw, result, tvdb,
                   parmBy, tvdbBy>>

\* lines 85-86, 89: the loop over with outcome out, the list is stored under
\* the cache key and the call returns
FinishSearch(t, out) ==
    /\ threads[t].pc = "loop"
    /\ LET cache_key == CacheKey2(PyStr(simplifyString(threads[t].q)),
                                  PyInt(threads[t].limit))
           stored == out.kind = "return" /\ out.val.t = "list"
       IN  /\ Goto(t, "done", [out |-> out])
           /\ cache' = IF stored THEN setCache(cache, cache_key, out.val) ELSE cache
           /\ writer' = IF stored THEN setCache(writer, cache_key, "search")
                        ELSE writer
    /\ UNCHANGED <<api_key, language, ncalls, raw, result, tvdb, parmBy, tvdbBy>>

\* lines 76-89: the detail fetches, the store and the return
Loop(t) ==
    \E f \in SearchFailPoints \ {1} :
        FinishSearch(t, SearchLoop(threads[t].raw, 1,
                                   [results |-> <<>>, calls |-> 1, fetched |-> 0,
                                    err |-> FALSE], f, threads[t].limit))

NextRace ==
    \E t \in Threads :
        \/ CheckDisabled(t)
        \/ TestLanguage(t)
        \/ SetLanguage(t)
        \/ Setup(t)
        \/ Lookup(t)
        \/ NameSearch(t)
        \/ Loop(t)

SpecRace == InitRace /\ [][NextRace]_vars

\* ------------------------------------------------------------------------
\* The calls the host can make, for the properties that speak of every call
\* ------------------------------------------------------------------------

SearchCalls ==
    {[op |-> "search", q |-> q, limit |-> limit, lang |-> lang] :
        q \in Queries, limit \in Limits, lang \in Languages}

ShowInfoCalls == {[op |-> "getShowInfo", identifier |-> i] : i \in Identifiers}

SeasonInfoCalls ==
    {[op |-> "getSeasonInfo", identifier |-> i, sel |-> sel] :
        i \in Identifiers, sel \in SeasonSelectors}

EpisodeInfoCalls ==
    {[op |-> "getEpisodeInfo", identifier |-> i, ssel |-> ssel, esel |-> esel] :
        i \in EpisodeIdentifiers, ssel \in EpisodeSeasonSelectors,
        esel \in EpisodeSelectors}

Calls == SearchCalls \cup ShowInfoCalls \cup SeasonInfoCalls \cup EpisodeInfoCalls

FailPointsOf(call) ==
    CASE call.op = "search" -> SearchFailPoints
      [] call.op = "getShowInfo" -> ShowFailPoints
      [] OTHER -> FetchFailPoints

\* the call made with cache c and client language lg, failing at f
Apply(call, c, lg, f) ==
    CASE call.op = "search" -> Search(c, lg, api_key, call.q, call.limit, call.lang, f)
      [] call.op = "getShowInfo" -> GetShowInfo(c, lg, call.identifier, f)
      [] call.op = "getSeasonInfo" -> GetSeasonInfo(c, lg, call.identifier, call.sel, f)
      [] OTHER -> GetEpisodeInfo(c, lg, call.identifier, call.ssel, call.esel, f)

\* ------------------------------------------------------------------------
\* C1
\* ------------------------------------------------------------------------

\* C1 (as claimed): with the provider disabled (empty API key) every public
\* operation, whatever its arguments and the cache, returns a failure
\* sentinel and makes no call to the external client.
C1_DisabledRefusesAll ==
    api_key = "" =>
        \A call \in Calls : \A f \in FailPointsOf(call) :
            LET r == Apply(call, cache, language, f)
            IN  /\ r.out.kind = "return"
                /\ ~Truthy(r.out.val)
                /\ r.out.calls = 0

\* ------------------------------------------------------------------------
\* C2
\* ------------------------------------------------------------------------

\* C2 (as claimed): whichever client call of a public operation raises a
\* client error, the operation ends by returning; no exception reaches the
\* host.
C2_NoExceptionOnClientError ==
    \A call \in Calls : \A f \in FailPointsOf(call) :
        LET r == Apply(call, cache, language, f)
        IN  r.out.err => r.out.kind = "return"

\* ------------------------------------------------------------------------
\* C3
\* ------------------------------------------------------------------------

\* the call completed without error (so the client failed at none of its
\* calls: it is a run with no failure injected)
Completed(r) == r.out.kind = "return" /\ ~r.out.err

\* the call made again, with the cache and the language the first run r left,
\* returns what r returned and calls the client nowhere (were there a client
\* call, its first could fail)
SameAgain(call, r) ==
    \A f \in FetchFailPoints :
        LET again == Apply(call, r.cache, r.language, f)
        IN  /\ again.out.kind = "return"
            /\ again.out.val = r.out.val
            /\ again.out.calls = 0

\* C3 (as claimed): a lookup that has completed without error returns the
\* same output when called again with the same arguments, without calling the
\* client, whatever the first call returned, an empty list included.
C3_IdempotentAlways ==
    \A call \in Calls :
        LET r == Apply(call, cache, language, 0)
        IN  Completed(r) => SameAgain(call, r)

\* C3 (amended): a lookup that has completed without error and returned
\* anything but an empty list or an empty map returns the same output when
\* called again with the same arguments, without calling the client.
C3_IdempotentNonEmpty ==
    \A call \in Calls :
        LET r == Apply(call, cache, language, 0)
        IN  (Completed(r) /\ r.out.val \notin {PyList(<<>>), EmptyDict})
                => SameAgain(call, r)

\* C3 witness: a lookup has stored its non-empty result, and the same lookup
\* made now is answered from that cache entry
C3_Witness ==
    \E call \in Calls :
        LET r == Apply(call, cache, language, 0)
        IN  /\ Hit(r)
            /\ Truthy(r.out.val)
            /\ writer[r.key] = call.op

\* ------------------------------------------------------------------------
\* C4
\* ------------------------------------------------------------------------

\* the show and the season getEpisodeInfo ends up looking into
EpisodeShowOf(call) ==
    IF Truthy(call.ssel) THEN PyStr(Split(call.ssel.v, ":")[1]) ELSE call.identifier

EpisodeSeasonOf(call) ==
    IF Truthy(call.ssel) THEN SeasonSelectorNumber(call.ssel) ELSE call.ssel

\* the call reaches a show of the site, and its episode selector is the id
\* of no episode of the show (of the selected season, with a season selector)
SelectsNoEpisode(call) ==
    /\ call.esel.t # "None"
    /\ Truthy(call.ssel) => EpisodeSelectorParses(call.ssel)
    /\ IntParses(EpisodeShowOf(call))
    /\ IntOf(EpisodeShowOf(call)) \in DOMAIN TheDb
    /\ LET show == TheDb[IntOf(EpisodeShowOf(call))]
           eps == EpisodesOf(show, Ascending(DOMAIN show.seasons), 1,
                             EpisodeSeasonOf(call))
       IN  \A i \in 1..Len(eps) :
               show.seasons[eps[i][1]][eps[i][2]]["id"] # toUnicode(call.esel)

\* C4 (as claimed): getEpisodeInfo with an episode selector that matches no
\* episode of the show (or of the selected season) returns an empty list.
C4_NoMatchGivesEmptyList ==
    \A call \in EpisodeInfoCalls :
        LET r == Apply(call, cache, language, 0)
        IN  SelectsNoEpisode(call) =>
                r.out.kind = "return" /\ r.out.val = PyList(<<>>)

\* ------------------------------------------------------------------------
\* C5
\* ------------------------------------------------------------------------

\* C5 (as claimed): in every reachable state, for a show s of the site and a
\* season n of it, getSeasonInfo(s, 's:n') returns one season record, not a
\* list, whose id is 's:n'.
C5_SelectedSeasonRecord ==
    \A s \in DOMAIN TheDb : \A n \in DOMAIN TheDb[s].seasons :
        LET id == PyStr(IntStr(s) \o <<":">> \o IntStr(n))
            r == GetSeasonInfo(cache, language, PyStr(IntStr(s)), id, 0)
        IN  /\ r.out.kind = "return"
            /\ r.out.val.t = "dict"
            /\ "id" \in DOMAIN r.out.val.v
            /\ r.out.val.v["id"] = id

\* ------------------------------------------------------------------------
\* C6
\* ------------------------------------------------------------------------

\* a null or empty value: None, '', [] or {}
NullOrEmpty(x) == x \in {None, PyStr(<<>>), PyList(<<>>), EmptyDict}

\* C6 (as claimed): no key of a normalised show, season or episode record,
\* the image lists inside 'images' included, is present with a null or empty
\* value.
C6_NoEmptyValueAnywhere ==
    (result.kind = "return" /\ result.val.t = "dict") =>
        \A k \in DOMAIN result.val.v :
            LET x == result.val.v[k]
            IN  /\ ~NullOrEmpty(x)
                /\ x.t = "dict" => \A j \in DOMAIN x.v : ~NullOrEmpty(x.v[j])

\* C6 (amended): every key of a normalised show, season or episode record
\* has a truthy value, so none is null or empty; the lists inside 'images'
\* are not filtered and may be empty.
C6_NoEmptyTopLevelValue ==
    (result.kind = "return" /\ result.val.t = "dict") =>
        \A k \in DOMAIN result.val.v :
            /\ Truthy(result.val.v[k])
            /\ ~NullOrEmpty(result.val.v[k])

\* C6 witness: a show has been normalised whose raw network is empty and whose
\* raw genre is null; the record carries neither 'network' nor 'genres', and
\* its 'images' holds an empty poster list
C6_Witness ==
    /\ raw.kind = "show"
    /\ result.kind = "return"
    /\ result.val.t = "dict"
    /\ "network" \in DOMAIN raw.show.data /\ raw.show.data["network"] = PyStr(<<>>)
    /\ "network" \notin DOMAIN result.val.v
    /\ raw.show.data["genre"] = None
    /\ "genres" \notin DOMAIN result.val.v
    /\ "images" \in DOMAIN result.val.v
    /\ result.val.v["images"].v["poster"] = PyList(<<>>)

\* ------------------------------------------------------------------------
\* C7
\* ------------------------------------------------------------------------

\* what the client's name-search answers to the query of a search call
NameSearchOf(call) == ClientSearch(simplifyString(call.q), FALSE).val

\* the call found no usable cache entry and went to the client
Miss(r) == r.out.calls > 0

ReturnsList(r) == r.out.kind = "return" /\ r.out.val.t = "list"

\* C7 (as claimed): for any query and any limit, 0 and negative ones
\* included, a search that misses the cache fetches the detail of at most
\* limit results, and the list it returns and caches has at most limit
\* records.
C7_AtMostLimitAnyLimit ==
    \A call \in SearchCalls : \A f \in SearchFailPoints :
        LET r == Apply(call, cache, language, f)
        IN  Miss(r) =>
                /\ r.out.fetched <= call.limit
                /\ ReturnsList(r) => Len(r.out.val.v) <= call.limit

\* C7 (amended): for any query and any limit of at least 1, a search that
\* misses the cache fetches the detail of at most limit results, and the
\* list it returns is the one it caches and has at most limit records; with
\* a limit of 0 or less a search that meets no client error fetches the
\* detail of every result of the name-search.
C7_AtMostPositiveLimit ==
    \A call \in SearchCalls : \A f \in SearchFailPoints :
        LET r == Apply(call, cache, language, f)
        IN  Miss(r) =>
                /\ call.limit >= 1 =>
                       /\ r.out.fetched <= call.limit
                       /\ ReturnsList(r) => Len(r.out.val.v) <= call.limit
                       /\ (ReturnsList(r) /\ Stored(r)) => r.cache[r.key] = r.out.val
                /\ (call.limit <= 0 /\ f = 0) =>
                       r.out.fetched = Len(NameSearchOf(call))

\* C7 witness: a search with limit 1 for a name that two shows answer to has
\* stored its list, of one record
C7_Witness ==
    \E call \in SearchCalls :
        LET key == CacheKey2(PyStr(simplifyString(call.q)), PyInt(call.limit))
        IN  /\ call.limit = 1
            /\ Len(NameSearchOf(call)) = 2
            /\ key \in DOMAIN cache
            /\ writer[key] = "search"
            /\ cache[key].t = "list"
            /\ Len(cache[key].v) = 1

\* ------------------------------------------------------------------------
\* C8
\* ------------------------------------------------------------------------

\* the position of the first ':' of s, 0 when it has none
FirstColon(s) ==
    IF \E i \in 1..Len(s) : s[i] = ":"
    THEN CHOOSE i \in 1..Len(s) : s[i] = ":" /\ \A j \in 1..(i - 1) : s[j] # ":"
    ELSE 0

\* the part of s after its first ':'
AfterFirstColon(s) == SubSeq(s, FirstColon(s) + 1, Len(s))

\* the part of s before its first ':', all of s when it has none
UpToColon(s) == IF FirstColon(s) = 0 THEN s ELSE SubSeq(s, 1, FirstColon(s) - 1)

RefusedAsFailure(call) ==
    \A f \in FetchFailPoints :
        LET r == Apply(call, cache, language, f)
        IN  /\ r.out.kind = "return"
            /\ r.out.val = PyFalse
            /\ r.out.calls = 0
            /\ r.cache = cache

\* C8 (as claimed): getSeasonInfo with a non-empty season selector that has
\* no ':', or whose part after the first ':' does not parse as an integer,
\* returns the failure sentinel, whatever the show identifier and the cache.
C8_BadSelectorFails ==
    \A call \in SeasonInfoCalls :
        (/\ Truthy(call.sel)
         /\ \/ FirstColon(call.sel.v) = 0
            \/ ~IntParses(PyStr(AfterFirstColon(call.sel.v))))
        => RefusedAsFailure(call)

\* C8 (amended): getSeasonInfo with a non-empty season selector that has no
\* ':', or whose part between the first ':' and the next one (or the end)
\* does not parse as an integer, returns the failure sentinel, whatever the
\* show identifier and the cache.
C8_BadSecondPartFails ==
    \A call \in SeasonInfoCalls :
        (/\ Truthy(call.sel)
         /\ \/ FirstColon(call.sel.v) = 0
            \/ ~IntParses(PyStr(UpToColon(AfterFirstColon(call.sel.v)))))
        => RefusedAsFailure(call)

\* C8 witness: getSeasonInfo has run and filled the cache, and a call for a
\* show of the site with a selector that has no ':' is answered False
C8_Witness ==
    /\ \E k \in DOMAIN writer : writer[k] = "getSeasonInfo"
    /\ \E call \in SeasonInfoCalls :
           /\ call.identifier = PyStr(<<"1">>)
           /\ Truthy(call.sel)
           /\ FirstColon(call.sel.v) = 0
           /\ Apply(call, cache, language, 0).out.val = PyFalse

\* ------------------------------------------------------------------------
\* C9
\* ------------------------------------------------------------------------

\* C9 (as claimed): normalising a raw show whose id does not parse as an
\* integer returns a record without the id key and raises nothing, whatever
\* the alias search by show name answers.
C9_BadIdGivesRecordWithoutId ==
    (/\ raw.kind = "show"
     /\ result # NoOutcome
     /\ ShowKeys \subseteq DOMAIN raw.show.data
     /\ ~IntParses(raw.show.data["id"]))
    => /\ result.kind = "return"
       /\ result.val.t = "dict"
       /\ "id" \notin DOMAIN result.val.v

\* ------------------------------------------------------------------------
\* C10
\* ------------------------------------------------------------------------

\* C10 (as claimed): in every reachable state, a value an operation returns
\* from the cache was stored by that same operation.
C10_HitsOwnEntries ==
    \A call \in Calls :
        LET r == Apply(call, cache, language, 0)
        IN  Hit(r) => writer[r.key] = call.op

\* ------------------------------------------------------------------------
\* C11
\* ------------------------------------------------------------------------

\* the call of thread t has performed its name-search
Searched(t) == threads[t].used # NoLanguage

\* C11: the client's language setting is shared by all search calls and
\* changed without locking. Every name-search is performed with the client
\* as the latest _setup() of any call left it, built for the language that
\* the call which last wrote the shared parameter asked for (the initial
\* language when no call has rebuilt the client), whatever language the
\* searching call itself asked for.
C11_SearchUsesSharedClient ==
    \A t \in Threads :
        Searched(t) =>
            threads[t].used =
                IF threads[t].seen = NoThread THEN InitialLanguage
                ELSE threads[threads[t].seen].lang

\* C11 witness: two calls asking for different supported languages have
\* interleaved, and one has performed its name-search with the client
\* configured for the language of the other
C11_Witness ==
    \E t \in Threads : \E u \in Threads \ {t} :
        /\ threads[t].lang \in valid_languages
        /\ threads[u].lang \in valid_languages
        /\ threads[t].lang # threads[u].lang
        /\ Searched(t)
        /\ threads[t].seen = u
        /\ threads[t].used = threads[u].lang

====
